---- MODULE Spec2Model ----
(***************************************************************************)
(* A model of pikzie's execution engine (lib/pikzie/core.py): the          *)
(* composite TestSuite, the TestCase lifecycle and the TestResult          *)
(* aggregator.                                                             *)
(*                                                                         *)
(* Objects are numbered: 1..NSuites are TestSuite instances and            *)
(* NSuites+1..NSuites+NCases are TestCase instances.  A suite holds        *)
(* references, so one instance may appear several times in a suite.        *)
(* Suites are numbered so that a nested suite has a larger number than a   *)
(* suite that holds it (no suite contains itself).                         *)
(***************************************************************************)
EXTENDS Integers, Sequences, FiniteSets, TLC

\* ---- bounds of the model ----
NSuites == 2
NCases == 2
MaxTests == 2
MaxLeaves == 2
MaxAssertions == 2
MaxListeners == 2
MaxCalls == 2
MaxFrames == 6
MaxParts == 2
MaxTargets == 2
MaxListenLeaves == 1

Suites == 1..NSuites
Cases == (NSuites + 1)..(NSuites + NCases)
Objects == Suites \cup Cases
Root == 1

IsSuite(x) == x \in Suites

\* What a call of setup(), of the test method or of teardown() can do:
\* return, raise AssertionFailure, raise KeyboardInterrupt, raise anything else.
Outcomes == {"ok", "AssertionFailure", "KeyboardInterrupt", "Exception"}

VARIABLES
    tests,        \* tests[s]: TestSuite._tests of suite s
    lastLen,      \* the value returned by the last len(suite) call: <<suite, n>>
    n_tests,      \* TestResult.n_tests
    faults,       \* TestResult.faults
    interrupted,  \* TestResult.interrupted
    stack,        \* the call stack of run() frames, innermost last
    status,       \* "ready", "running", "returned" or "raised" (top-level run call)
    nruns,        \* number of TestCase.run calls made so far
    calls,        \* the calls made so far, in order: [op, run, test, out]
    n_assertions, \* TestResult.n_assertions
    listners,     \* TestResult.listners: each listener is the set of hooks it has
    notified,     \* the hooks invoked so far, in order: [listener, hook, arg, call]
    preset,       \* whether result.interrupt() was called before suite.run(result)
    tb,           \* a raw traceback and what _prepare_traceback made of it
    loader        \* a TestLoader at work: its files, the importer, its locals

vars == <<tests, lastLen, n_tests, faults, interrupted, stack, status, nruns, calls,
          n_assertions, listners, notified, preset, tb, loader>>
\* the suites, the result and the interpreter
engineVars == <<tests, lastLen, n_tests, faults, interrupted, stack, status, nruns, calls,
                n_assertions, listners, notified, preset>>
\* what only the traceback filter and the loader touch
pureVars == <<tb, loader>>
\* what the suite and its run leave alone
extVars == <<n_assertions, listners, notified>>
resultVars == <<n_tests, faults, interrupted>>
runVars == <<n_tests, faults, interrupted, stack, status, nruns, calls>>

\* ---------------------------------------------------------------------------
\* TestSuite: size

RECURSIVE SumLen(_, _)
\* TestCase.__len__
TestCase_len == 1

\* sum(map(len, seq)) over the heap h
SumLen(h, seq) ==
    IF seq = <<>> THEN 0
    ELSE (IF IsSuite(Head(seq)) THEN SumLen(h, h[Head(seq)]) ELSE TestCase_len)
         + SumLen(h, Tail(seq))

\* a mutant: the number of direct children
TestSuite_len_shallow(h, s) == Len(h[s])

\* TestSuite.__len__
TestSuite_len(h, s) == SumLen(h, h[s])

\* ---------------------------------------------------------------------------
\* TestSuite: construction

\* sequences over S of length at most n
SeqUpTo(S, n) == UNION {[1..k -> S] : k \in 0..n}

\* the objects that may be put into suite s
Addable(s) == {t \in Objects : IsSuite(t) => t > s}

\* TestSuite.add_test: self._tests.append(test)
AddTest(h, s, t) == [h EXCEPT ![s] = Append(@, t)]

RECURSIVE AddTests(_, _, _)
\* TestSuite.add_tests: for test in tests: self.add_test(test)
AddTests(h, s, ts) ==
    IF ts = <<>> THEN h ELSE AddTests(AddTest(h, s, Head(ts)), s, Tail(ts))

add_test ==
    \E s \in Suites : \E t \in Addable(s) :
        /\ Len(tests[s]) < MaxTests
        /\ tests' = AddTest(tests, s, t)
        /\ UNCHANGED <<pureVars, preset, lastLen, runVars, extVars>>

add_tests ==
    \E s \in Suites : \E ts \in SeqUpTo(Addable(s), MaxTests) :
        /\ Len(tests[s]) + Len(ts) <= MaxTests
        /\ tests' = AddTests(tests, s, ts)
        /\ UNCHANGED <<pureVars, preset, lastLen, runVars, extVars>>

\* len(suite)
suite_len ==
    \E s \in Suites :
        /\ lastLen' = <<s, TestSuite_len(tests, s)>>
        /\ UNCHANGED <<pureVars, preset, tests, runVars, extVars>>

\* no traceback is being filtered and no loader is at work
IdlePure ==
    /\ tb = [stack |-> <<>>, kind |-> "none", result |-> <<>>]
    /\ loader = [pc |-> "idle"]

\* TestResult.__init__ and an idle interpreter
InitResult ==
    /\ n_tests = 0
    /\ faults = <<>>
    /\ interrupted = FALSE
    /\ stack = <<>>
    /\ status = "ready"
    /\ nruns = 0
    /\ calls = <<>>
    /\ n_assertions = 0
    /\ listners = <<>>
    /\ notified = <<>>
    /\ preset = FALSE

\* TestSuite.__init__ with tests=()
InitSuite ==
    /\ tests = [s \in Suites |-> <<>>]
    /\ lastLen = <<Root, 0>>
    /\ InitResult
    /\ IdlePure

NextSuite == add_test \/ add_tests \/ suite_len

SpecSuite == InitSuite /\ [][NextSuite]_vars

\* ---------------------------------------------------------------------------
\* TestResult: listeners

\* the callback hooks a listener may have
Hooks == {"on_start_test", "on_stop_test", "on_pass_assertion",
          "on_success", "on_failure", "on_error"}

\* callback_name = "on_%s" % name
CallbackName(name) ==
    CASE name = "start_test" -> "on_start_test"
      [] name = "stop_test" -> "on_stop_test"
      [] name = "pass_assertion" -> "on_pass_assertion"
      [] name = "success" -> "on_success"
      [] name = "failure" -> "on_failure"
      [] name = "error" -> "on_error"

\* a mutant: the loop ends at the first listener without the hook
RECURSIVE NotifyFrom_break(_, _, _, _, _)
NotifyFrom_break(ls, k, name, arg, c) ==
    IF k > Len(ls) \/ CallbackName(name) \notin ls[k] THEN <<>>
    ELSE <<[listener |-> k, hook |-> CallbackName(name), arg |-> arg, call |-> c]>>
         \o NotifyFrom_break(ls, k + 1, name, arg, c)

\* for listner in self.listners: if hasattr(listner, callback_name):
\* getattr(listner, callback_name)(self, *args), from the k-th listener on.
\* arg is the test the event is about (the test itself, or the test of the
\* fault), c the position in calls of the call that notifies
RECURSIVE NotifyFrom(_, _, _, _, _)
NotifyFrom(ls, k, name, arg, c) ==
    IF k > Len(ls) THEN <<>>
    ELSE (IF CallbackName(name) \in ls[k]
          THEN <<[listener |-> k, hook |-> CallbackName(name), arg |-> arg, call |-> c]>>
          ELSE <<>>)
         \o NotifyFrom(ls, k + 1, name, arg, c)

\* TestResult._notify
TestResult_notify(ls, name, arg, c) == NotifyFrom(ls, 1, name, arg, c)

\* a mutant: stop_test notifies like the other calls
StopNotify_notifies(ls, arg, c) == TestResult_notify(ls, "stop_test", arg, c)

\* what TestResult.stop_test tells the listeners: it only takes the time and
\* adds it to elapsed, _notify is not called
StopNotify(ls, arg, c) == <<>>

\* a mutant: only Errors count
succeeded_errors_only(fs) == \A k \in DOMAIN fs : fs[k].kind # "Error"

\* TestResult.succeeded
succeeded(fs) == Len(fs) = 0

\* ---------------------------------------------------------------------------
\* The interpreter: frames of TestSuite.run and TestCase.run

\* a frame of TestSuite.run on suite s: i is the position of the loop in
\* self._tests, pc is "loop" (about to take the next child) or "check" (the
\* child's run has returned)
SuiteFrame(s) ==
    [self |-> s, pc |-> "loop", i |-> 1, run |-> 0, success |-> FALSE,
     exc |-> "none", ret |-> FALSE]

\* a frame of TestCase.run on case t, the r-th call of TestCase.run: success is
\* the local of that name, exc the exception in flight inside the frame, ret
\* whether a return statement is being carried through the finally clauses
CaseFrame(t, r) ==
    [self |-> t, pc |-> "start", i |-> 0, run |-> r, success |-> FALSE,
     exc |-> "none", ret |-> FALSE]

Top == stack[Len(stack)]
InSuite == status = "running" /\ stack # <<>> /\ IsSuite(Top.self)
InCase(pc) == status = "running" /\ stack # <<>> /\ ~IsSuite(Top.self) /\ Top.pc = pc

SetTop(f) == [stack EXCEPT ![Len(stack)] = f]
Pop == SubSeq(stack, 1, Len(stack) - 1)

\* an entry of calls: the operation, the TestCase.run call it belongs to (0 for
\* a suite), the object it is made for, and what it did: the outcome of a phase,
\* the kind of fault reported, the value of the flag need_interrupt read
Call(op, f, out) == [op |-> op, run |-> f.run, test |-> f.self, out |-> out]

\* Failure(self, detail, tracebacks) and Error(self, exception_type, detail,
\* tracebacks): the exception is named by its type and the phase that raised it
\* a mutant: _add_failure builds an Error
Failure_as_error(f, type, phase) ==
    [kind |-> "Error", test |-> f.self, type |-> type, phase |-> phase, run |-> f.run]

Failure(f, type, phase) ==
    [kind |-> "Failure", test |-> f.self, type |-> type, phase |-> phase, run |-> f.run]
Error(f, type, phase) ==
    [kind |-> "Error", test |-> f.self, type |-> type, phase |-> phase, run |-> f.run]

\* a mutant: interrupted is a method that returns
CallInterrupted_returns(flag) == "none"

\* result.interrupted(): TestResult.interrupted is the boolean attribute set in
\* __init__, and calling a boolean raises TypeError, whatever its value
CallInterrupted(flag) == "TypeError"

\* a mutant: the flag is never seen
need_interrupt_never(flag) == FALSE

\* a mutant: the flag is read the wrong way round
need_interrupt_inverted(flag) == ~flag

\* TestResult.need_interrupt
need_interrupt(flag) == flag

\* TestResult.interrupt, called by whoever holds the result (a listener, a
\* signal handler) before or while the suite runs; nothing in core.py calls it
interrupt ==
    /\ status \in {"ready", "running"}
    /\ interrupted' = TRUE
    /\ preset' = (preset \/ status = "ready")
    /\ UNCHANGED <<pureVars, tests, lastLen, n_tests, faults, stack, status, nruns, calls, extVars>>

\* the call suite.run(result) on the root suite
TestSuite_run ==
    /\ status = "ready"
    /\ status' = "running"
    /\ stack' = <<SuiteFrame(Root)>>
    /\ UNCHANGED <<pureVars, preset, tests, lastLen, resultVars, nruns, calls, extVars>>

\* a mutant: the children are taken last first
ChildAt_reversed(seq, i) == seq[Len(seq) + 1 - i]

\* the i-th item of the iteration "for test in self._tests"
ChildAt(seq, i) == seq[i]

\* for test in self._tests: test.run(result)
TestSuite_run_next ==
    /\ InSuite
    /\ Top.pc = "loop"
    /\ Top.i <= Len(tests[Top.self])
    /\ LET t == ChildAt(tests[Top.self], Top.i) IN
        IF IsSuite(t)
        THEN /\ stack' = Append(stack, SuiteFrame(t))
             /\ nruns' = nruns
        ELSE /\ stack' = Append(stack, CaseFrame(t, nruns + 1))
             /\ nruns' = nruns + 1
    /\ UNCHANGED <<pureVars, preset, tests, lastLen, resultVars, status, calls, extVars>>

\* the stack after the innermost frame has returned normally: its caller, a
\* TestSuite.run, is at the check that follows test.run(result)
Returned ==
    IF Len(stack) = 1 THEN <<>>
    ELSE [Pop EXCEPT ![Len(stack) - 1] = [@ EXCEPT !.pc = "check"]]

\* if result.need_interrupt(): break
TestSuite_run_check ==
    /\ InSuite
    /\ Top.pc = "check"
    /\ calls' = Append(calls, Call("need_interrupt", Top, IF interrupted THEN "TRUE" ELSE "FALSE"))
    /\ IF need_interrupt(interrupted)
       THEN /\ stack' = Returned
            /\ status' = IF Len(stack) = 1 THEN "returned" ELSE status
       ELSE /\ stack' = SetTop([Top EXCEPT !.pc = "loop", !.i = @ + 1])
            /\ status' = status
    /\ UNCHANGED <<pureVars, preset, tests, lastLen, resultVars, nruns, extVars>>

\* the for loop is exhausted: TestSuite.run returns
TestSuite_run_end ==
    /\ InSuite
    /\ Top.pc = "loop"
    /\ Top.i > Len(tests[Top.self])
    /\ stack' = Returned
    /\ status' = IF Len(stack) = 1 THEN "returned" ELSE status
    /\ UNCHANGED <<pureVars, preset, tests, lastLen, resultVars, nruns, calls, extVars>>

\* ---------------------------------------------------------------------------
\* TestCase.run

\* a mutant: the handler of AssertionFailure records nothing
Recorded_not_failure(o) == o = "Exception"

\* a mutant: the first handler of each phase records the interrupt as an Error
Recorded_interrupt_too(o) == o # "ok"

\* the outcomes of a phase whose handler reports a fault: everything raised
\* except KeyboardInterrupt, which the first handler takes
Recorded(o) == o \in {"AssertionFailure", "Exception"}

\* TestResult.start_test, from "self.__result = result; result.start_test(self)"
start_test ==
    /\ InCase("start")
    /\ n_tests' = n_tests + 1
    /\ calls' = Append(calls, Call("start_test", Top, ""))
    /\ notified' = notified \o TestResult_notify(listners, "start_test", Top.self, Len(calls) + 1)
    /\ stack' = SetTop([Top EXCEPT !.pc = "setup"])
    /\ UNCHANGED <<pureVars, preset, tests, lastLen, faults, interrupted, status, nruns, n_assertions, listners>>

\* a mutant: the early exits of the setup handlers leave without the finally clause
SetupNextPc_no_finally(o) == IF o = "ok" THEN "test_method" ELSE "stop"

\* a mutant: the setup handlers do not return
SetupNextPc_no_return(o) == "test_method"

\* where control goes after the try statement around self.setup(): on to the test
\* method, or (an exception out of a handler, or its return) into the finally
\* clause that runs teardown
SetupNextPc(o) == IF o = "ok" THEN "test_method" ELSE "teardown"

\* try: self.setup() / except KeyboardInterrupt: result.interrupted(); return /
\* except: self._add_error(result); return
setup ==
    /\ InCase("setup")
    /\ \E o \in Outcomes :
        LET f == Top
            exc == IF o = "KeyboardInterrupt" THEN CallInterrupted(interrupted) ELSE "none"
            ret == Recorded(o) \/ (o = "KeyboardInterrupt" /\ exc = "none")
        IN  /\ faults' = IF Recorded(o) THEN Append(faults, Error(f, o, "setup")) ELSE faults
            /\ calls' = calls \o <<Call("setup", f, o)>>
                         \o (IF Recorded(o) THEN <<Call("add_error", f, "Error")>> ELSE <<>>)
            /\ notified' = notified \o (IF Recorded(o)
                   THEN TestResult_notify(listners, "error", f.self, Len(calls) + 2) ELSE <<>>)
            /\ stack' = SetTop([f EXCEPT !.pc = SetupNextPc(o), !.exc = exc, !.ret = ret])
    /\ UNCHANGED <<pureVars, preset, tests, lastLen, n_tests, interrupted, status, nruns, n_assertions, listners>>

\* a mutant: the counter is left alone
PassAssertion_forgets(n) == n

\* self.n_assertions += 1
PassAssertion(n) == n + 1

\* a satisfied assertion inside the test method: TestCase._pass_assertion,
\* self.__result.pass_assertion(self)
pass_assertion ==
    /\ InCase("test_method")
    /\ n_assertions < MaxAssertions
    /\ n_assertions' = PassAssertion(n_assertions)
    /\ calls' = Append(calls, Call("pass_assertion", Top, ""))
    /\ notified' = notified \o TestResult_notify(listners, "pass_assertion", Top.self, Len(calls) + 1)
    /\ UNCHANGED <<pureVars, preset, tests, lastLen, resultVars, stack, status, nruns, listners>>

\* a mutant: _add_failure reports through result.add_failure
ReportCall_by_kind(kind) == IF kind = "Failure" THEN "add_failure" ELSE "add_error"

\* the method of the result that TestCase._add_failure and TestCase._add_error
\* end with: result.add_error(self, failure) and result.add_error(self, error)
ReportCall(kind) == "add_error"

\* the name TestResult.add_error and TestResult.add_failure give to _notify
NotifyName(op) == IF op = "add_failure" THEN "failure" ELSE "error"

\* try: getattr(self, self.__method_name)(); success = True /
\* except AssertionFailure: self._add_failure(result) /
\* except KeyboardInterrupt: result.interrupted(); return /
\* except: self._add_error(result)
test_method ==
    /\ InCase("test_method")
    /\ \E o \in Outcomes :
        LET f == Top
            exc == IF o = "KeyboardInterrupt" THEN CallInterrupted(interrupted) ELSE "none"
            ret == f.ret \/ (o = "KeyboardInterrupt" /\ exc = "none")
            fault == IF o = "AssertionFailure"
                     THEN Failure(f, o, "test_method") ELSE Error(f, o, "test_method")
        IN  /\ faults' = IF Recorded(o) THEN Append(faults, fault) ELSE faults
            /\ calls' = calls \o <<Call("test_method", f, o)>>
                         \o (IF Recorded(o) THEN <<Call(ReportCall(fault.kind), f, fault.kind)>>
                             ELSE <<>>)
            /\ stack' = SetTop([f EXCEPT !.pc = "teardown", !.exc = exc, !.ret = ret,
                                         !.success = (o = "ok")])
            /\ notified' = notified \o (IF Recorded(o)
                   THEN TestResult_notify(listners, NotifyName(ReportCall(fault.kind)), f.self,
                                          Len(calls) + 2)
                   ELSE <<>>)
    /\ UNCHANGED <<pureVars, preset, tests, lastLen, n_tests, interrupted, status, nruns, n_assertions, listners>>

\* a mutant: the teardown handler leaves success alone
TeardownSuccess_kept(o, success) == success

\* the local success after the finally clause: "success = False" in the handler
\* of a teardown fault
TeardownSuccess(o, success) == IF Recorded(o) THEN FALSE ELSE success

\* finally: try: self.teardown() / except KeyboardInterrupt: result.interrupted() /
\* except: self._add_error(result); success = False
\* and then what the finally clause was carrying: the exception in flight or the
\* return go on to the outer finally, anything else to "if success:"
teardown ==
    /\ InCase("teardown")
    /\ \E o \in Outcomes :
        LET f == Top
            raised == IF o = "KeyboardInterrupt" THEN CallInterrupted(interrupted) ELSE "none"
            exc == IF raised # "none" THEN raised ELSE f.exc
        IN  /\ faults' = IF Recorded(o) THEN Append(faults, Error(f, o, "teardown")) ELSE faults
            /\ calls' = calls \o <<Call("teardown", f, o)>>
                         \o (IF Recorded(o) THEN <<Call("add_error", f, "Error")>> ELSE <<>>)
            /\ stack' = SetTop([f EXCEPT
                                  !.pc = IF exc # "none" \/ f.ret THEN "stop" ELSE "add_success",
                                  !.exc = exc,
                                  !.success = TeardownSuccess(o, f.success)])
            /\ notified' = notified \o (IF Recorded(o)
                   THEN TestResult_notify(listners, "error", f.self, Len(calls) + 2) ELSE <<>>)
    /\ UNCHANGED <<pureVars, preset, tests, lastLen, n_tests, interrupted, status, nruns, n_assertions, listners>>

\* if success: result.add_success(self)
add_success ==
    /\ InCase("add_success")
    /\ calls' = IF Top.success THEN Append(calls, Call("add_success", Top, "")) ELSE calls
    /\ notified' = notified \o (IF Top.success
           THEN TestResult_notify(listners, "success", Top.self, Len(calls) + 1) ELSE <<>>)
    /\ stack' = SetTop([Top EXCEPT !.pc = "stop"])
    /\ UNCHANGED <<pureVars, preset, tests, lastLen, resultVars, status, nruns, n_assertions, listners>>

\* a mutant: stop_test is not in a finally clause, an exception passes it by
stop_test_no_finally ==
    /\ InCase("stop")
    /\ calls' = IF Top.exc # "none" THEN calls ELSE Append(calls, Call("stop_test", Top, ""))
    /\ IF Top.exc # "none"
       THEN stack' = <<>> /\ status' = "raised"
       ELSE stack' = Returned /\ status' = IF Len(stack) = 1 THEN "returned" ELSE status
    /\ UNCHANGED <<pureVars, preset, tests, lastLen, resultVars, nruns, extVars>>

\* finally: result.stop_test(self); self.__result = None
\* and then TestCase.run returns, or the exception in flight leaves it: no
\* TestSuite.run above catches anything, so it unwinds the whole stack
stop_test ==
    /\ InCase("stop")
    /\ calls' = Append(calls, Call("stop_test", Top, ""))
    /\ IF Top.exc # "none"
       THEN stack' = <<>> /\ status' = "raised"
       ELSE stack' = Returned /\ status' = IF Len(stack) = 1 THEN "returned" ELSE status
    /\ notified' = notified \o StopNotify(listners, Top.self, Len(calls) + 1)
    /\ UNCHANGED <<pureVars, preset, tests, lastLen, resultVars, nruns, n_assertions, listners>>

\* ---------------------------------------------------------------------------
\* Running a suite

\* the suites a run of the root can reach
RECURSIVE Reach(_, _)
Reach(h, s) == {s} \cup UNION {Reach(h, h[s][k]) : k \in {j \in DOMAIN h[s] : IsSuite(h[s][j])}}

\* the suites a program can have built: every nested suite is held by the root
\* (what the root cannot reach does not take part in the run)
RunHeaps ==
    {h \in [Suites -> SeqUpTo(Objects, MaxTests)] :
        /\ \A s \in Suites : \A k \in DOMAIN h[s] : h[s][k] \in Addable(s)
        /\ \A s \in Suites \ Reach(h, Root) : h[s] = <<>>
        /\ TestSuite_len(h, Root) <= MaxLeaves}

Init ==
    /\ tests \in RunHeaps
    /\ lastLen = <<Root, 0>>
    /\ InitResult
    /\ IdlePure

Next ==
    \/ interrupt
    \/ TestSuite_run
    \/ TestSuite_run_next
    \/ TestSuite_run_check
    \/ TestSuite_run_end
    \/ start_test
    \/ setup
    \/ pass_assertion
    \/ test_method
    \/ teardown
    \/ add_success
    \/ stop_test

Spec == Init /\ [][Next]_vars

\* ---------------------------------------------------------------------------
\* Reading the history

Runs == 1..nruns
OnStack(r) == \E k \in DOMAIN stack : stack[k].run = r
\* the r-th call of TestCase.run has been left (by return or by exception)
Finished(r) == r \in Runs /\ ~OnStack(r)
Terminated == status \in {"returned", "raised"}

At(op, r) == {i \in DOMAIN calls : calls[i].op = op /\ calls[i].run = r}
Count(op, r) == Cardinality(At(op, r))
Did(op, r, o) == \E i \in At(op, r) : calls[i].out = o
FaultsOf(r) == SelectSeq(faults, LAMBDA x : x.run = r)
Before(I, J) == \A i \in I : \A j \in J : i < j
LeafOps == {"start_test", "stop_test"}

\* the leaves of x in depth-first insertion order
RECURSIVE Flatten(_, _)
Flatten(h, seq) ==
    IF seq = <<>> THEN <<>>
    ELSE (IF IsSuite(Head(seq)) THEN Flatten(h, h[Head(seq)]) ELSE <<Head(seq)>>)
         \o Flatten(h, Tail(seq))

\* the positions of the leaves below x, as paths of child indexes
RECURSIVE LeafPaths(_, _)
LeafPaths(h, x) ==
    IF ~IsSuite(x) THEN {<<>>}
    ELSE UNION {{<<k>> \o q : q \in LeafPaths(h, h[x][k])} : k \in DOMAIN h[x]}

\* ---------------------------------------------------------------------------
\* C1: every call of TestCase.run makes exactly one start_test and one
\* stop_test call, start_test first, whatever setup, the test method and
\* teardown do, and no start_test or stop_test of another leaf lies between them.
C1_StartStopOnce ==
    \A r \in Runs :
        /\ Count("start_test", r) <= 1
        /\ Count("stop_test", r) <= 1
        /\ Before(At("start_test", r), At("stop_test", r))
        /\ Count("stop_test", r) = 1 => Count("start_test", r) = 1
        /\ Finished(r) =>
            /\ Count("start_test", r) = 1
            /\ Count("stop_test", r) = 1
            /\ \A a \in At("start_test", r) : \A b \in At("stop_test", r) :
                 \A i \in a..b : calls[i].op \in LeafOps => calls[i].run = r

\* a second leaf was left by an exception after a first one had returned
C1_Witness ==
    /\ status = "raised"
    /\ nruns = 2
    /\ Did("teardown", 2, "KeyboardInterrupt")
    /\ Did("test_method", 1, "AssertionFailure")

\* C2 (as stated): every leaf run has exactly one of add_success, a recorded
\* Failure, a recorded Error.
C2_ExactlyOneOutcome ==
    \A r \in Runs : Finished(r) => Count("add_success", r) + Len(FaultsOf(r)) = 1

\* C2 (amended): a leaf run notifies add_success at most once and never together
\* with a fault; it records one fault when setup or the test method raises
\* something other than KeyboardInterrupt and one more when teardown does; when
\* no phase raises KeyboardInterrupt, add_success is notified exactly when no
\* fault was recorded; when setup or the test method raises KeyboardInterrupt,
\* add_success is not notified.
C2_OutcomePerRun ==
    \A r \in Runs : Finished(r) =>
        LET early == \/ Did("setup", r, "AssertionFailure") \/ Did("setup", r, "Exception")
                     \/ Did("test_method", r, "AssertionFailure")
                     \/ Did("test_method", r, "Exception")
            late == Did("teardown", r, "AssertionFailure") \/ Did("teardown", r, "Exception")
            kbd == \E i \in DOMAIN calls : calls[i].run = r /\ calls[i].out = "KeyboardInterrupt"
            kbdEarly == \/ Did("setup", r, "KeyboardInterrupt")
                        \/ Did("test_method", r, "KeyboardInterrupt")
        IN  /\ Count("add_success", r) <= 1
            /\ Count("add_success", r) = 1 => Len(FaultsOf(r)) = 0
            /\ Len(FaultsOf(r)) = (IF early THEN 1 ELSE 0) + (IF late THEN 1 ELSE 0)
            /\ ~kbd => (Count("add_success", r) = 1 <=> Len(FaultsOf(r)) = 0)
            /\ kbdEarly => Count("add_success", r) = 0

\* a run that recorded two faults, and one that recorded nothing at all
C2_Witness ==
    /\ status = "raised"
    /\ nruns = 2
    /\ Len(FaultsOf(1)) = 2
    /\ Len(FaultsOf(2)) = 0
    /\ Count("add_success", 2) = 0

\* C3: in every call of TestCase.run teardown is invoked exactly once, after
\* setup and after the test method when it ran, and before stop_test, on every
\* exit path.
C3_TeardownOnce ==
    \A r \in Runs :
        /\ Count("teardown", r) <= 1
        /\ Before(At("setup", r), At("teardown", r))
        /\ Before(At("test_method", r), At("teardown", r))
        /\ Before(At("teardown", r), At("stop_test", r))
        /\ Count("teardown", r) = 1 => Count("setup", r) = 1
        /\ Count("stop_test", r) = 1 => Count("teardown", r) = 1
        /\ Finished(r) => Count("teardown", r) = 1 /\ Count("setup", r) = 1

\* a run whose setup raised KeyboardInterrupt and whose teardown raised too
C3_Witness ==
    /\ Terminated
    /\ Did("setup", 1, "KeyboardInterrupt")
    /\ Did("teardown", 1, "Exception")
    /\ Count("teardown", 1) = 1

\* C4 (as stated): nothing raised inside TestCase.run leaves it, so no exception
\* ever ends the run of the suite.
C4_NothingEscapes == status # "raised"

\* C5: when the test method raises KeyboardInterrupt, teardown still runs,
\* stop_test is notified, and no later leaf is started.
C5_InterruptedBodyHaltsSuite ==
    \A r \in Runs : Did("test_method", r, "KeyboardInterrupt") =>
        /\ nruns = r
        /\ \A i \in DOMAIN calls : calls[i].op = "start_test" => calls[i].run <= r
        /\ Finished(r) => Count("teardown", r) = 1 /\ Count("stop_test", r) = 1
        /\ Terminated => Finished(r)

\* the first of two siblings raised KeyboardInterrupt in its test method and
\* the run is over
C5_Witness ==
    /\ Terminated
    /\ Len(tests[Root]) = 2
    /\ Did("test_method", 1, "KeyboardInterrupt")
    /\ Count("stop_test", 1) = 1
    /\ Count("teardown", 1) = 1

\* C6 (as stated): a suite of two tests whose first test raises KeyboardInterrupt
\* in its body ends with the interrupted flag true, the second test never
\* started, and TestSuite.run returning normally.
C6_InterruptedFlagAndReturn ==
    (/\ Terminated
     /\ Len(tests[Root]) = 2
     /\ \A k \in 1..2 : ~IsSuite(tests[Root][k])
     /\ Did("test_method", 1, "KeyboardInterrupt"))
    => (/\ need_interrupt(interrupted)
        /\ \A i \in DOMAIN calls : calls[i].op = "start_test" => calls[i].run = 1
        /\ status = "returned")

\* C7: when setup raises something other than KeyboardInterrupt, that fault is
\* recorded as exactly one Error, the test method is never invoked, add_success
\* is never notified, and teardown still runs.
C7_SetupFault ==
    \A r \in Runs : (Did("setup", r, "AssertionFailure") \/ Did("setup", r, "Exception")) =>
        /\ Len(SelectSeq(faults, LAMBDA x : x.run = r /\ x.phase = "setup")) = 1
        /\ \A k \in DOMAIN faults :
             (faults[k].run = r /\ faults[k].phase = "setup") => faults[k].kind = "Error"
        /\ \A k \in DOMAIN faults : faults[k].run = r => faults[k].phase # "test_method"
        /\ Count("test_method", r) = 0
        /\ Count("add_success", r) = 0
        /\ Finished(r) => Count("teardown", r) = 1

\* setup raised, teardown returned, and the suite went on with the next leaf
C7_Witness ==
    /\ status = "returned"
    /\ nruns = 2
    /\ Did("setup", 1, "Exception")
    /\ Did("teardown", 1, "ok")
    /\ Len(FaultsOf(1)) = 1

\* C8: when the test method returns normally and teardown raises something
\* other than KeyboardInterrupt, an Error is recorded and add_success is not
\* notified.
C8_TeardownFaultOverrides ==
    \A r \in Runs :
        (/\ Finished(r)
         /\ Did("test_method", r, "ok")
         /\ Did("teardown", r, "AssertionFailure") \/ Did("teardown", r, "Exception"))
        => /\ \E k \in DOMAIN faults :
                /\ faults[k].run = r
                /\ faults[k].kind = "Error"
                /\ faults[k].phase = "teardown"
           /\ Count("add_success", r) = 0

\* the test method passed and teardown raised
C8_Witness ==
    /\ status = "returned"
    /\ Did("test_method", 1, "ok")
    /\ Did("teardown", 1, "Exception")
    /\ Len(FaultsOf(1)) = 1

\* the tests given to start_test so far, in order
Started == [k \in 1..n_tests |-> (SelectSeq(calls, LAMBDA c : c.op = "start_test"))[k].test]
IsPrefix(a, b) == Len(a) <= Len(b) /\ \A k \in DOMAIN a : a[k] = b[k]

\* C9: TestSuite.run runs its children in insertion order, one after the other,
\* and reads need_interrupt after each child; once the flag is true at such a
\* read, no further child is run, neither in that suite nor in a suite that
\* holds it.
C9_SuiteOrderAndBreak ==
    /\ Len(SelectSeq(calls, LAMBDA c : c.op = "start_test")) = n_tests
    /\ IsPrefix(Started, Flatten(tests, tests[Root]))
    /\ \A i \in DOMAIN calls :
        /\ (calls[i].op = "start_test" /\ calls[i].run > 1) =>
              \E j \in 1..(i - 1) : calls[j].op = "stop_test" /\ calls[j].run = calls[i].run - 1
        /\ (calls[i].op = "stop_test" /\ i < Len(calls)) => calls[i + 1].op = "need_interrupt"
        /\ (calls[i].op = "need_interrupt" /\ calls[i].out = "TRUE") =>
              \A j \in (i + 1)..Len(calls) :
                  calls[j].op = "need_interrupt" /\ calls[j].out = "TRUE"
    /\ status = "returned" =>
          \/ Started = Flatten(tests, tests[Root])
          \/ \E i \in DOMAIN calls : calls[i].op = "need_interrupt" /\ calls[i].out = "TRUE"

\* the flag was set while the only leaf of a nested suite ran: the nested suite
\* and the root both stopped, and the root's second child never ran
C9_Witness ==
    /\ status = "returned"
    /\ interrupted
    /\ Len(tests[Root]) = 2
    /\ IsSuite(tests[Root][1])
    /\ ~IsSuite(tests[Root][2])
    /\ Len(tests[tests[Root][1]]) = 1
    /\ nruns = 1
    /\ Len(SelectSeq(calls, LAMBDA c : c.op = "need_interrupt")) = 2

\* C10: len(suite) is the number of leaf TestCases below the suite, counted
\* through nested suites and with multiplicity; a TestCase has size 1 and an
\* empty suite size 0.
C10_SizeIsLeafCount ==
    /\ TestCase_len = 1
    /\ \A s \in Suites :
        /\ TestSuite_len(tests, s) = Cardinality(LeafPaths(tests, s))
        /\ TestSuite_len(tests, s) = Len(Flatten(tests, tests[s]))
        /\ tests[s] = <<>> => TestSuite_len(tests, s) = 0

\* the root holds the same nested suite twice, and len(root) was taken
C10_Witness ==
    /\ Len(tests[Root]) = 2
    /\ \A k \in 1..2 : IsSuite(tests[Root][k]) /\ Len(tests[tests[Root][k]]) = 2
    /\ lastLen = <<Root, 4>>

\* ---------------------------------------------------------------------------
\* TestResult on its own: any caller, any order of calls

\* the listeners tried: one with every hook, one with none, and two that
\* share the hooks between them
ListenerTypes ==
    {Hooks, {},
     {"on_start_test", "on_stop_test", "on_error"},
     {"on_pass_assertion", "on_success", "on_failure"}}

\* the caller of a direct call: no TestCase.run is involved
Direct(t) == [self |-> t, run |-> 0]

\* the faults a caller may hand to add_error and add_failure
FaultsFor(t) ==
    {Failure(Direct(t), "AssertionFailure", ""), Error(Direct(t), "Exception", "")}

MayCall ==
    /\ status = "ready"
    /\ Len(SelectSeq(calls, LAMBDA c : c.op # "add_listner")) < MaxCalls

\* TestResult.add_listner
add_listner ==
    /\ status = "ready"
    /\ Len(listners) < MaxListeners
    /\ \E l \in ListenerTypes : listners' = Append(listners, l)
    /\ calls' = Append(calls, Call("add_listner", Direct(0), ""))
    /\ UNCHANGED <<pureVars, preset, tests, lastLen, resultVars, stack, status, nruns, n_assertions, notified>>

\* TestResult.start_test
TestResult_start_test ==
    /\ MayCall
    /\ \E t \in Cases :
        /\ n_tests' = n_tests + 1
        /\ calls' = Append(calls, Call("start_test", Direct(t), ""))
        /\ notified' = notified \o TestResult_notify(listners, "start_test", t, Len(calls) + 1)
    /\ UNCHANGED <<pureVars, preset, tests, lastLen, faults, interrupted, stack, status, nruns, n_assertions, listners>>

\* TestResult.stop_test
TestResult_stop_test ==
    /\ MayCall
    /\ \E t \in Cases :
        /\ calls' = Append(calls, Call("stop_test", Direct(t), ""))
        /\ notified' = notified \o StopNotify(listners, t, Len(calls) + 1)
    /\ UNCHANGED <<pureVars, preset, tests, lastLen, resultVars, stack, status, nruns, n_assertions, listners>>

\* TestResult.pass_assertion
TestResult_pass_assertion ==
    /\ MayCall
    /\ \E t \in Cases :
        /\ n_assertions' = PassAssertion(n_assertions)
        /\ calls' = Append(calls, Call("pass_assertion", Direct(t), ""))
        /\ notified' = notified \o TestResult_notify(listners, "pass_assertion", t, Len(calls) + 1)
    /\ UNCHANGED <<pureVars, preset, tests, lastLen, resultVars, stack, status, nruns, listners>>

\* TestResult.add_error
TestResult_add_error ==
    /\ MayCall
    /\ \E t \in Cases : \E fault \in FaultsFor(t) :
        /\ faults' = Append(faults, fault)
        /\ calls' = Append(calls, Call("add_error", Direct(t), fault.kind))
        /\ notified' = notified \o TestResult_notify(listners, "error", t, Len(calls) + 1)
    /\ UNCHANGED <<pureVars, preset, tests, lastLen, n_tests, interrupted, stack, status, nruns, n_assertions, listners>>

\* TestResult.add_failure
TestResult_add_failure ==
    /\ MayCall
    /\ \E t \in Cases : \E fault \in FaultsFor(t) :
        /\ faults' = Append(faults, fault)
        /\ calls' = Append(calls, Call("add_failure", Direct(t), fault.kind))
        /\ notified' = notified \o TestResult_notify(listners, "failure", t, Len(calls) + 1)
    /\ UNCHANGED <<pureVars, preset, tests, lastLen, n_tests, interrupted, stack, status, nruns, n_assertions, listners>>

\* TestResult.add_success
TestResult_add_success ==
    /\ MayCall
    /\ \E t \in Cases :
        /\ calls' = Append(calls, Call("add_success", Direct(t), ""))
        /\ notified' = notified \o TestResult_notify(listners, "success", t, Len(calls) + 1)
    /\ UNCHANGED <<pureVars, preset, tests, lastLen, resultVars, stack, status, nruns, n_assertions, listners>>

\* TestResult.interrupt
TestResult_interrupt ==
    /\ MayCall
    /\ interrupted' = TRUE
    /\ calls' = Append(calls, Call("interrupt", Direct(0), ""))
    /\ preset' = TRUE
    /\ UNCHANGED <<pureVars, tests, lastLen, n_tests, faults, stack, status, nruns, extVars>>

InitTestResult ==
    /\ tests = [s \in Suites |-> <<>>]
    /\ lastLen = <<Root, 0>>
    /\ InitResult
    /\ IdlePure

NextResult ==
    \/ add_listner
    \/ TestResult_start_test
    \/ TestResult_stop_test
    \/ TestResult_pass_assertion
    \/ TestResult_add_error
    \/ TestResult_add_failure
    \/ TestResult_add_success
    \/ TestResult_interrupt

SpecResult == InitTestResult /\ [][NextResult]_vars

\* the call of TestResult at position i of calls has a hook of this name
HookOf(op) ==
    CASE op = "start_test" -> "on_start_test"
      [] op = "stop_test" -> "on_stop_test"
      [] op = "pass_assertion" -> "on_pass_assertion"
      [] op = "add_success" -> "on_success"
      [] op = "add_failure" -> "on_failure"
      [] op = "add_error" -> "on_error"
      [] OTHER -> "none"

\* the listeners registered before the call at position i
ListenersAt(i) == 1..Len(SelectSeq(SubSeq(calls, 1, i - 1), LAMBDA c : c.op = "add_listner"))
\* the hook invocations the call at position i made, in order
NotifiedBy(i) == SelectSeq(notified, LAMBDA n : n.call = i)

\* C11: succeeded() is false exactly when add_error or add_failure has been
\* called since the result was created; no other call changes it.
C11_SucceededIffNoFault ==
    succeeded(faults) <=> ~\E i \in DOMAIN calls : calls[i].op \in {"add_error", "add_failure"}

\* a Failure was handed to add_error, then other calls were made
C11_Witness ==
    /\ Len(calls) >= 2
    /\ calls[1].op = "add_error"
    /\ calls[1].out = "Failure"
    /\ calls[Len(calls)].op \in {"add_success", "start_test", "stop_test", "interrupt"}
    /\ ~succeeded(faults)

\* C12 (as stated): every call that has a listener hook invokes that hook once
\* on every registered listener that has it, stop_test included.
C12_EveryHookInvoked ==
    \A i \in DOMAIN calls : HookOf(calls[i].op) # "none" =>
        \A k \in ListenersAt(i) : HookOf(calls[i].op) \in listners[k] =>
            Len(SelectSeq(notified, LAMBDA n :
                    n.call = i /\ n.listener = k /\ n.hook = HookOf(calls[i].op))) = 1

\* C13: one notification calls the hook of the listeners in registration
\* order, leaving out exactly the listeners that lack it.
C13_NotifyInOrder ==
    /\ \A a, b \in DOMAIN notified : a < b => notified[a].call <= notified[b].call
    /\ \A i \in DOMAIN calls :
        LET ns == NotifiedBy(i)
            hook == HookOf(calls[i].op)
        IN  /\ \A a, b \in DOMAIN ns : a < b => ns[a].listener < ns[b].listener
            /\ \A a \in DOMAIN ns :
                 /\ ns[a].listener \in ListenersAt(i)
                 /\ ns[a].hook = hook
                 /\ hook \in listners[ns[a].listener]
                 /\ ns[a].arg = calls[i].test
            /\ (hook # "none" /\ calls[i].op # "stop_test") =>
                 \A k \in ListenersAt(i) : hook \in listners[k] =>
                     \E a \in DOMAIN ns : ns[a].listener = k

\* the first listener lacks the hook, the second has it and was called
C13_Witness ==
    /\ Len(listners) = 2
    /\ listners[1] = {}
    /\ listners[2] = Hooks
    /\ Len(calls) = 3
    /\ calls[3].op = "add_success"
    /\ Len(NotifiedBy(3)) = 1
    /\ notified[1].listener = 2

\* C19: n_tests is the number of start_test calls and n_assertions the number
\* of pass_assertion calls made so far; a test method that makes k satisfied
\* assertions and returns normally, with setup and teardown returning normally,
\* adds k to n_assertions, notifies add_success once and records no fault.
C19_Counters ==
    /\ n_tests = Len(SelectSeq(calls, LAMBDA c : c.op = "start_test"))
    /\ n_assertions = Len(SelectSeq(calls, LAMBDA c : c.op = "pass_assertion"))
    /\ \A r \in Runs :
        /\ Before(At("start_test", r), At("pass_assertion", r))
        /\ Before(At("pass_assertion", r), At("test_method", r))
        /\ (/\ Finished(r)
            /\ Did("setup", r, "ok") /\ Did("test_method", r, "ok") /\ Did("teardown", r, "ok"))
           => /\ Count("add_success", r) = 1
              /\ FaultsOf(r) = <<>>

\* a test method made two satisfied assertions and passed
C19_Witness ==
    /\ status = "returned"
    /\ nruns = 1
    /\ Count("pass_assertion", 1) = 2
    /\ n_assertions = 2
    /\ Count("add_success", 1) = 1
    /\ faults = <<>>

\* C20: a KeyboardInterrupt raised by setup, the test method or teardown is
\* never recorded: it appends nothing to faults and reports neither a success
\* nor an error, and faults holds only the faults of the other phases.
C20_InterruptNotRecorded ==
    /\ \A k \in DOMAIN faults :
        /\ faults[k].type \in {"AssertionFailure", "Exception"}
        /\ Did(faults[k].phase, faults[k].run, faults[k].type)
    /\ \A r \in Runs :
        LET cancelled == {p \in {"setup", "test_method", "teardown"} : Did(p, r, "KeyboardInterrupt")}
            raising == {p \in {"setup", "test_method", "teardown"} :
                          Did(p, r, "AssertionFailure") \/ Did(p, r, "Exception")}
        IN  /\ \A p \in cancelled : \A k \in DOMAIN faults :
                 ~(faults[k].run = r /\ faults[k].phase = p)
            /\ \A p \in cancelled : \A i \in At(p, r) :
                 i < Len(calls) => calls[i + 1].op \notin {"add_error", "add_failure", "add_success"}
            /\ cancelled # {} => Count("add_success", r) = 0
            /\ Count("add_error", r) = Cardinality(raising)
            /\ Len(FaultsOf(r)) = Cardinality(raising)
            /\ Count("add_failure", r) = 0

\* the test method recorded a Failure and teardown was then interrupted
C20_Witness ==
    /\ Terminated
    /\ Did("test_method", 1, "AssertionFailure")
    /\ Did("teardown", 1, "KeyboardInterrupt")
    /\ Len(faults) = 1

\* ---------------------------------------------------------------------------
\* Traceback filtering

\* a raw traceback is the sequence of its levels, outermost first, each level
\* standing for what _is_relevant_tb_level finds in the globals of its frame:
\* "framework" when TestCase or one of its bases is bound there, "caller"
\* otherwise.  A position past the end stands for tb = None.
Tags == {"framework", "caller"}

\* length = None: traceback.extract_tb takes no limit
NoLimit == -1

\* TestCase._is_relevant_tb_level
is_relevant_tb_level(st, i) == st[i] = "framework"

RECURSIVE SkipRelevant(_, _)
\* while tb and self._is_relevant_tb_level(tb): tb = tb.tb_next
SkipRelevant(st, i) ==
    IF i <= Len(st) /\ is_relevant_tb_level(st, i) THEN SkipRelevant(st, i + 1) ELSE i

RECURSIVE count_relevant_tb_levels(_, _)
\* TestCase._count_relevant_tb_levels
count_relevant_tb_levels(st, i) ==
    IF i <= Len(st) /\ ~is_relevant_tb_level(st, i)
    THEN 1 + count_relevant_tb_levels(st, i + 1)
    ELSE 0

RECURSIVE extract_tb(_, _, _, _)
\* traceback.extract_tb(tb, limit): the levels from tb on, at most limit of
\* them; n is the number taken so far.  A level is named by its position.
extract_tb(st, i, limit, n) ==
    IF i <= Len(st) /\ (limit = NoLimit \/ n < limit)
    THEN <<i>> \o extract_tb(st, i + 1, limit, n + 1)
    ELSE <<>>

\* a mutant: the length is never computed
prepare_traceback_no_length(st, compute_length) ==
    extract_tb(st, SkipRelevant(st, 1), NoLimit, 0)

\* a mutant: the length is always computed
prepare_traceback_always_length(st, compute_length) ==
    extract_tb(st, SkipRelevant(st, 1), count_relevant_tb_levels(st, SkipRelevant(st, 1)), 0)

\* TestCase._prepare_traceback
prepare_traceback(st, compute_length) ==
    LET i == SkipRelevant(st, 1)
        length == IF compute_length THEN count_relevant_tb_levels(st, i) ELSE NoLimit
    IN  extract_tb(st, i, length, 0)

\* TestCase._add_failure: tracebacks = self._prepare_traceback(traceback, True)
TestCase_add_failure ==
    /\ tb' = [tb EXCEPT !.kind = "Failure", !.result = prepare_traceback(tb.stack, TRUE)]
    /\ UNCHANGED <<engineVars, loader>>

\* TestCase._add_error: tracebacks = self._prepare_traceback(traceback, False)
TestCase_add_error ==
    /\ tb' = [tb EXCEPT !.kind = "Error", !.result = prepare_traceback(tb.stack, FALSE)]
    /\ UNCHANGED <<engineVars, loader>>

\* the tracebacks sys.exc_info() hands to TestCase.run: the first level is the
\* frame of run itself, a frame of the framework
RawTracebacks == {st \in SeqUpTo(Tags, MaxFrames) : st # <<>> /\ st[1] = "framework"}

InitTraceback ==
    /\ tests = [s \in Suites |-> <<>>]
    /\ lastLen = <<Root, 0>>
    /\ InitResult
    /\ tb \in {[stack |-> st, kind |-> "none", result |-> <<>>] : st \in RawTracebacks}
    /\ loader = [pc |-> "idle"]

NextTraceback == TestCase_add_failure \/ TestCase_add_error

SpecTraceback == InitTraceback /\ [][NextTraceback]_vars

\* the positions of the caller levels of tb.stack
CallerLevels == {i \in DOMAIN tb.stack : tb.stack[i] = "caller"}
\* the first caller level, or one past the end when there is none
FirstCaller ==
    IF CallerLevels = {} THEN Len(tb.stack) + 1
    ELSE CHOOSE i \in CallerLevels : \A j \in CallerLevels : i <= j
\* the sequence a, a+1, ..., b
FromTo(a, b) == [k \in 1..(b - a + 1) |-> a + k - 1]

\* C17: for a Failure the filtered traceback is the run of caller levels that
\* follows the leading framework levels, up to the first level that is of the
\* framework again; it holds no framework level and is not empty when the
\* traceback has a caller level.
C17_FailureTraceback ==
    tb.kind = "Failure" =>
        /\ \A k \in DOMAIN tb.result : tb.stack[tb.result[k]] = "caller"
        /\ CallerLevels # {} => tb.result # <<>>
        /\ \E b \in (FirstCaller - 1)..Len(tb.stack) :
            /\ tb.result = FromTo(FirstCaller, b)
            /\ \A j \in FirstCaller..b : j \in CallerLevels
            /\ b < Len(tb.stack) => (b + 1) \notin CallerLevels

\* run, the test method, an assertion helper of the framework, and a caller
\* level below it that the Failure leaves out
C17_Witness ==
    /\ tb.kind = "Failure"
    /\ tb.stack = <<"framework", "caller", "framework", "caller">>
    /\ tb.result = <<2>>

\* C18: for an Error the filtered traceback is everything after the leading
\* framework levels, later framework levels included, and starts with a caller
\* level.
C18_ErrorTraceback ==
    tb.kind = "Error" =>
        /\ tb.result = FromTo(FirstCaller, Len(tb.stack))
        /\ tb.result # <<>> => tb.stack[tb.result[1]] = "caller"
        /\ \A j \in DOMAIN tb.stack : j < FirstCaller => tb.stack[j] = "framework"

\* two leading framework levels, then a caller, a framework and a caller level
C18_Witness ==
    /\ tb.kind = "Error"
    /\ tb.stack = <<"framework", "framework", "caller", "framework", "caller">>
    /\ tb.result = <<3, 4, 5>>

\* ---------------------------------------------------------------------------
\* Test discovery

\* the identifiers a dotted module name is made of
Names == {"a", "b"}
\* the components of a path, the extension of the last one dropped by
\* os.path.splitext; a component may hold a dot itself
Components == {"a", "b", "a.b"}

\* what str.split(".") makes of one component
split(c) ==
    CASE c = "a" -> <<"a">>
      [] c = "b" -> <<"b">>
      [] c = "a.b" -> <<"a", "b">>

RECURSIVE PartsOf(_)
\* load_modules: splitext, the separators replaced by ".", then split(".")
PartsOf(path) ==
    IF path = <<>> THEN <<>> ELSE split(Head(path)) \o PartsOf(Tail(path))

\* the paths glob can list
Paths == {p \in SeqUpTo(Components, MaxParts) : p # <<>> /\ Len(PartsOf(p)) <= MaxParts}
\* the dotted names __import__ can be asked for
DottedNames == SeqUpTo(Names, MaxParts) \ {<<>>}

\* parts.pop(): the last part is removed
parts_pop(parts) == SubSeq(parts, 1, Len(parts) - 1)

\* what __import__(name) does: it succeeds, raises ImportError, or raises
\* something else (the module has a syntax error, its body raises)
ImportOutcomes == {"ok", "ImportError", "Error"}
\* importing a.b imports the package a first: where that fails, the import of
\* a.b fails the same way
Envs ==
    {e \in [DottedNames -> ImportOutcomes] :
        \A n \in DottedNames :
            (Len(n) > 1 /\ e[parts_pop(n)] # "ok") => e[n] = e[parts_pop(n)]}

\* what glob.glob(self.pattern) lists: files, and a directory of a matching name
FileEntries ==
    {[path |-> p, isfile |-> TRUE] : p \in Paths}
        \cup {[path |-> <<"a">>, isfile |-> FALSE]}
\* a listing names no path twice
Listings ==
    {l \in SeqUpTo(FileEntries, MaxTargets) :
        \A i, j \in DOMAIN l : l[i].path = l[j].path => i = j}

RECURSIVE find_targets_of(_)
\* TestLoader.find_targets: the entries os.path.isfile accepts, in order
find_targets_of(listing) ==
    IF listing = <<>> THEN <<>>
    ELSE (IF Head(listing).isfile THEN <<Head(listing).path>> ELSE <<>>)
         \o find_targets_of(Tail(listing))

\* module = None
None == <<>>

\* a mutant: the module is appended whether it was found or not
AfterWhile_appends_None(modules, module) == Append(modules, module)

\* if module is not None: modules.append(module)
AfterWhile(modules, module) ==
    IF module # None THEN Append(modules, module) ELSE modules

\* the objects a module may bind: two test-case types and something else
ModuleAttrs == {"Helper", "TestA", "TestB"}
\* dir(module) lists the names in alphabetical order
DirOrder == <<"Helper", "TestA", "TestB">>
Dir(attrs) == SelectSeq(DirOrder, LAMBDA o : o \in attrs)
\* isinstance(object, (type, types.ClassType)) and issubclass(object, TestCase)
IsTestCaseType(o) == o \in {"TestA", "TestB"}

\* dir(test_case), in alphabetical order, with callable(getattr(test_case, name))
ClassDir(c) ==
    CASE c = "TestA" -> << [name |-> "helper", callable |-> TRUE],
                           [name |-> "test_a", callable |-> TRUE],
                           [name |-> "test_data", callable |-> FALSE] >>
      [] c = "TestB" -> << [name |-> "test_a", callable |-> TRUE],
                           [name |-> "test_b", callable |-> TRUE] >>
      [] OTHER -> <<>>

\* name.startswith("test_")
startswith_test(name) == name \in {"test_a", "test_b", "test_data"}

\* is_test_method of create_test_suite
is_test_method(attr) == startswith_test(attr.name) /\ attr.callable

RECURSIVE CollectTestCases(_, _)
\* TestLoader.collect_test_cases: the loops over the modules and their names
CollectTestCases(modules, dirs) ==
    IF modules = <<>> THEN <<>>
    ELSE SelectSeq(Dir(dirs[Head(modules)]), IsTestCaseType)
         \o CollectTestCases(Tail(modules), dirs)

\* map(test_case, filter(is_test_method, dir(test_case)))
InstancesOf(test_case) ==
    LET methods == SelectSeq(ClassDir(test_case), is_test_method)
    IN  [k \in 1..Len(methods) |-> [type |-> test_case, method |-> methods[k].name]]

RECURSIVE CreateTests(_)
\* TestLoader.create_test_suite: the loop over the test cases
CreateTests(test_cases) ==
    IF test_cases = <<>> THEN <<>>
    ELSE InstancesOf(Head(test_cases)) \o CreateTests(Tail(test_cases))

\* the set of the elements of a sequence
Range(seq) == {seq[i] : i \in DOMAIN seq}

\* create_test_suite is entered: collect_test_cases, load_modules and
\* find_targets are called in turn, and load_modules starts with no module
find_targets ==
    /\ loader.pc = "idle"
    /\ loader' = [loader EXCEPT !.pc = "for_target",
                                !.targets = find_targets_of(loader.listing),
                                !.modules = <<>>,
                                !.ti = 1]
    /\ UNCHANGED <<engineVars, tb>>

\* load_modules, the head of the for loop: the parts of the next target
load_modules_for ==
    /\ loader.pc = "for_target"
    /\ loader.ti <= Len(loader.targets)
    /\ loader' = [loader EXCEPT !.pc = "while",
                                !.parts = PartsOf(loader.targets[loader.ti]),
                                !.module = None]
    /\ UNCHANGED <<engineVars, tb>>

\* load_modules, one turn of the while loop: the import of the joined parts,
\* except ImportError: pass, and parts.pop(); any other exception leaves
\* load_modules, collect_test_cases and create_test_suite
load_modules_try ==
    /\ loader.pc = "while"
    /\ Len(loader.parts) > 0
    /\ loader.module = None
    /\ LET name == loader.parts
           out == loader.env[name]
       IN  loader' =
             IF out = "Error"
             THEN [loader EXCEPT !.pc = "raised", !.name = name]
             ELSE [loader EXCEPT !.name = name,
                                 !.module = IF out = "ok" THEN name ELSE None,
                                 !.parts = parts_pop(loader.parts)]
    /\ UNCHANGED <<engineVars, tb>>

\* load_modules, after the while loop: the module found is appended
load_modules_append ==
    /\ loader.pc = "while"
    /\ ~(Len(loader.parts) > 0 /\ loader.module = None)
    /\ loader' = [loader EXCEPT !.pc = "for_target",
                                !.modules = AfterWhile(loader.modules, loader.module),
                                !.resolved = Append(loader.resolved, loader.module),
                                !.ti = loader.ti + 1]
    /\ UNCHANGED <<engineVars, tb>>

\* load_modules returns and collect_test_cases goes through the modules; what
\* each module binds is read here
collect_test_cases ==
    /\ loader.pc = "for_target"
    /\ loader.ti > Len(loader.targets)
    /\ \E dirs \in [Range(loader.modules) -> SUBSET ModuleAttrs] :
        loader' = [loader EXCEPT !.pc = "collected",
                                 !.dirs = dirs,
                                 !.test_cases = CollectTestCases(loader.modules, dirs)]
    /\ UNCHANGED <<engineVars, tb>>

\* create_test_suite: the instances of every test case, in one TestSuite
create_test_suite ==
    /\ loader.pc = "collected"
    /\ loader' = [loader EXCEPT !.pc = "created",
                                !.tests = CreateTests(loader.test_cases)]
    /\ UNCHANGED <<engineVars, tb>>

InitLoader ==
    /\ tests = [s \in Suites |-> <<>>]
    /\ lastLen = <<Root, 0>>
    /\ InitResult
    /\ tb = [stack |-> <<>>, kind |-> "none", result |-> <<>>]
    /\ loader \in {[pc |-> "idle", listing |-> l, env |-> e, targets |-> <<>>, ti |-> 0,
                    parts |-> <<>>, name |-> <<>>, module |-> None, modules |-> <<>>,
                    resolved |-> <<>>, dirs |-> <<>>, test_cases |-> <<>>,
                    tests |-> <<>>] : l \in Listings, e \in Envs}

NextLoader ==
    \/ find_targets
    \/ load_modules_for
    \/ load_modules_try
    \/ load_modules_append
    \/ collect_test_cases
    \/ create_test_suite

SpecLoader == InitLoader /\ [][NextLoader]_vars

\* the parts of the i-th target
TargetParts(i) == PartsOf(loader.targets[i])
\* no import of the environment raises anything but ImportError
OnlyImportErrors == \A n \in DottedNames : loader.env[n] # "Error"

RECURSIVE LongestImportableSuffix(_)
\* the longest suffix of parts that can be imported, None when there is none
LongestImportableSuffix(parts) ==
    IF parts = <<>> THEN None
    ELSE IF loader.env[parts] = "ok" THEN parts
    ELSE LongestImportableSuffix(Tail(parts))

\* C14: the module resolved for a target is the longest importable suffix of
\* its dotted name (a failed import drops the leading component), and the
\* target is skipped when no suffix can be imported.
C14_LongestSuffix ==
    OnlyImportErrors =>
        \A i \in DOMAIN loader.resolved :
            loader.resolved[i] = LongestImportableSuffix(TargetParts(i))

\* the candidates load_modules has for parts: its prefixes
Candidates(parts) == {SubSeq(parts, 1, k) : k \in 1..Len(parts)}
\* no candidate of parts can be imported
Unimportable(parts) == \A n \in Candidates(parts) : loader.env[n] # "ok"
\* every candidate of parts raises ImportError
AllImportError(parts) == \A n \in Candidates(parts) : loader.env[n] = "ImportError"
\* load_modules has returned
LoadReturned ==
    \/ loader.pc \in {"collected", "created"}
    \/ loader.pc = "for_target" /\ loader.ti > Len(loader.targets)

\* C15, as stated: a target no candidate of which can be imported never aborts
\* discovery, whatever the import attempts raised.
C15_SkippedWhateverFault ==
    loader.pc = "raised" => ~Unimportable(TargetParts(loader.ti))

\* the longest candidate of parts that can be imported
LongestImportable(parts) ==
    CHOOSE n \in Candidates(parts) :
        /\ loader.env[n] = "ok"
        /\ \A m \in Candidates(parts) : loader.env[m] = "ok" => Len(m) <= Len(n)

RECURSIVE ModulesOf(_)
\* the modules of the targets that have an importable candidate, in order
ModulesOf(targets) ==
    IF targets = <<>> THEN <<>>
    ELSE (IF Unimportable(PartsOf(Head(targets))) THEN <<>>
          ELSE <<LongestImportable(PartsOf(Head(targets)))>>)
         \o ModulesOf(Tail(targets))

\* C15: a target whose import attempts all raise ImportError is skipped and
\* load_modules goes on; when load_modules returns, the modules are those of
\* the other targets, in file-listing order; discovery is aborted only by an
\* import attempt that raises something else than ImportError.
C15_SkipOnImportError ==
    /\ LoadReturned => loader.modules = ModulesOf(loader.targets)
    /\ loader.pc = "raised" => loader.env[loader.name] = "Error"
    /\ \A i \in DOMAIN loader.targets :
        (i < loader.ti /\ AllImportError(TargetParts(i))) => loader.resolved[i] = None
    /\ (\A i \in DOMAIN loader.targets : \A n \in Candidates(TargetParts(i)) :
            loader.env[n] # "Error") => loader.pc # "raised"

\* the first of two targets is skipped after ImportErrors, the second resolved
C15_Witness ==
    /\ LoadReturned
    /\ Len(loader.targets) = 2
    /\ AllImportError(TargetParts(1))
    /\ Len(TargetParts(1)) = 2
    /\ loader.modules = <<TargetParts(2)>>

\* the test-case types the resolved modules bind
TypesFound ==
    {c \in UNION {loader.dirs[m] : m \in Range(loader.modules)} : IsTestCaseType(c)}
\* the (type, method) pairs the resolved modules hold
PairsFound ==
    UNION {{[type |-> c, method |-> a.name] :
                a \in {x \in Range(ClassDir(c)) : is_test_method(x)}} : c \in TypesFound}

\* C16: the suite holds one instance for every pair found, and no pair twice.
C16_OneInstancePerPair ==
    loader.pc = "created" =>
        /\ Range(loader.tests) = PairsFound
        /\ \A i, j \in DOMAIN loader.tests :
            loader.tests[i] = loader.tests[j] => i = j

\* ---------------------------------------------------------------------------
\* Classification and reporting of faults

\* the calls that report a fault to the result
Reports == SelectSeq(calls, LAMBDA c : c.op \in {"add_error", "add_failure"})

InitListen ==
    /\ tests \in {h \in RunHeaps : TestSuite_len(h, Root) <= MaxListenLeaves}
    /\ lastLen = <<Root, 0>>
    /\ n_tests = 0
    /\ faults = <<>>
    /\ interrupted = FALSE
    /\ stack = <<>>
    /\ status = "ready"
    /\ nruns = 0
    /\ calls = <<>>
    /\ n_assertions = 0
    /\ listners \in SeqUpTo(ListenerTypes, MaxListeners)
    /\ notified = <<>>
    /\ preset = FALSE
    /\ IdlePure

SpecListen == InitListen /\ [][Next]_vars

\* the hooks invoked by the call at position i of calls
HooksBy(i) == SelectSeq(notified, LAMBDA x : x.call = i)

SomeKeyboardInterrupt == \E i \in DOMAIN calls : calls[i].out = "KeyboardInterrupt"

\* the steps of a run in progress
RunStep ==
    \/ TestSuite_run_next
    \/ TestSuite_run_check
    \/ TestSuite_run_end
    \/ start_test
    \/ setup
    \/ test_method
    \/ teardown
    \/ add_success
    \/ stop_test

\* C23: as long as no phase raises KeyboardInterrupt and nobody calls
\* result.interrupt(), no exception leaves TestSuite.run and the run can go
\* on until it returns; when it has returned, every leaf was started exactly
\* once, in depth-first insertion order, and n_tests is the size of the suite,
\* whatever faults were recorded.
C23_UncancelledRunCompletes ==
    (~SomeKeyboardInterrupt /\ ~interrupted) =>
        /\ status # "raised"
        /\ status = "running" => ENABLED RunStep
        /\ IsPrefix(Started, Flatten(tests, tests[Root]))
        /\ \A r \in Runs : Count("start_test", r) <= 1
        /\ status = "returned" =>
            /\ Started = Flatten(tests, tests[Root])
            /\ \A r \in Runs : Count("start_test", r) = 1
            /\ nruns = TestSuite_len(tests, Root)
            /\ n_tests = TestSuite_len(tests, Root)

\* a nested suite and a leaf after it, both leaves with faults, all run
C23_Witness ==
    /\ status = "returned"
    /\ ~interrupted
    /\ ~SomeKeyboardInterrupt
    /\ Len(tests[Root]) = 2
    /\ IsSuite(tests[Root][1])
    /\ ~IsSuite(tests[Root][2])
    /\ Len(tests[tests[Root][1]]) = 1
    /\ tests[tests[Root][1]][1] # tests[Root][2]
    /\ n_tests = 2
    /\ Len(FaultsOf(1)) = 2
    /\ Len(FaultsOf(2)) = 1

RECURSIVE FirstChain(_, _)
\* the leaf that following the first child from suite s on ends at, as a
\* sequence of one leaf, or of none when the chain ends at an empty suite
FirstChain(h, s) ==
    IF h[s] = <<>> THEN <<>>
    ELSE IF IsSuite(h[s][1]) THEN FirstChain(h, h[s][1])
    ELSE <<h[s][1]>>

\* the r-th call of TestCase.run went through start_test, setup, teardown and
\* stop_test, and through the test method when setup returned
RanToCompletion(r) ==
    /\ Count("start_test", r) = 1
    /\ Count("setup", r) = 1
    /\ Count("test_method", r) = (IF Did("setup", r, "ok") THEN 1 ELSE 0)
    /\ Count("teardown", r) = 1
    /\ Count("stop_test", r) = 1

\* C24 (as stated): when the flag is already true as TestSuite.run is called
\* on a suite that holds a leaf, exactly one leaf, the first in depth-first
\* insertion order, is run to completion and no other leaf is started.
C24_ExactlyOneLeafWhenPreset ==
    (preset /\ Terminated /\ TestSuite_len(tests, Root) > 0) =>
        /\ nruns = 1
        /\ Started = <<Flatten(tests, tests[Root])[1]>>
        /\ RanToCompletion(1)

\* C24 (amended): the flag is read only after a child has run.  When it is
\* already true as TestSuite.run is called, every suite entered runs its first
\* child and breaks: the leaf the chain of first children ends at is run to
\* completion and no other leaf is started, and when that chain ends at an
\* empty suite no leaf is run at all.  A leaf that is running while the flag is
\* true, or becomes true, is not cut short.
C24_FlagReadAfterChild ==
    /\ preset =>
        /\ IsPrefix(Started, FirstChain(tests, Root))
        /\ nruns <= 1
        /\ Terminated => Started = FirstChain(tests, Root)
        /\ \A i \in DOMAIN calls : calls[i].op = "need_interrupt" =>
              /\ calls[i].out = "TRUE"
              /\ i > 1 => calls[i - 1].op \in {"stop_test", "need_interrupt"}
    /\ \A r \in Runs : (interrupted /\ Finished(r)) => RanToCompletion(r)
    /\ (interrupted /\ InSuite /\ Top.pc = "loop" /\ Top.i <= Len(tests[Top.self])) =>
          ENABLED TestSuite_run_next

\* the flag was set before the run of a suite of two leaves: the first leaf
\* ran to the end, the second was never started
C24_Witness ==
    /\ preset
    /\ status = "returned"
    /\ Len(tests[Root]) = 2
    /\ \A k \in 1..2 : ~IsSuite(tests[Root][k])
    /\ nruns = 1
    /\ RanToCompletion(1)
    /\ Did("test_method", 1, "ok")

====
